---- MODULE Spec2Model ----
(***************************************************************************)
(* Model of the export task of internal/manager/task_export.go:            *)
(* ExportTask.Start, the dependency pre-pass, the seven export pools with  *)
(* their workers, and generateDownload.                                    *)
(*                                                                         *)
(* The repository (All, FindMany, FindBy...ID) is an external collaborator *)
(* that reads one transaction snapshot; the snapshot is the fixed data     *)
(* given by Rows and the relation operators below.  Every call that can    *)
(* return an error may do so, up to MaxFaults errors in one run.           *)
(***************************************************************************)
EXTENDS Integers, Sequences, FiniteSets, Bags, TLC

\* ------------------------------------------------------------------ bounds
MaxWorkers == 2      \* runtime.GOMAXPROCS(0) ranges over 1..MaxWorkers
MaxFaults == 1       \* errors injected by the environment in one run
MaxRequested == 2    \* entity types for which the caller passes an input

\* -------------------------------------------------------- program constants
QueueFactor == 2     \* make(chan ..., workers*2)

\* ------------------------------------------------------------ entity types
Types == {"scenes", "images", "galleries", "movies", "performers", "studios", "tags"}

\* The tags pool run first instead of last.
PoolOrder_TagsFirst == <<"tags", "scenes", "images", "galleries", "movies", "performers", "studios">>

\* Start: ExportScenes, ExportImages, ExportGalleries, ExportMovies,
\* ExportPerformers, ExportStudios, ExportTags, in this order.
PoolOrder == <<"scenes", "images", "galleries", "movies", "performers", "studios", "tags">>

NumPools == Len(PoolOrder)

\* --------------------------------------------------- transaction snapshot
\* The rows visible in the snapshot, by id.
Rows(t) ==
    CASE t = "scenes" -> {1, 2}
      [] t = "images" -> {1, 2}
      [] t = "galleries" -> {1}
      [] t = "movies" -> {1}
      [] t = "performers" -> {1}
      [] t = "studios" -> {1}
      [] t = "tags" -> {1, 2, 3}

\* StudioID of a row (0: nil).
StudioID(t, id) ==
    CASE t = "scenes" -> IF id = 1 THEN 1 ELSE 0
      [] t = "images" -> IF id = 1 THEN 1 ELSE 0
      [] t = "galleries" -> 1
      [] t = "movies" -> 1
      [] OTHER -> 0

\* galleryReader.FindBySceneID / FindByImageID, as ids.
GalleryIDs(t, id) ==
    CASE t = "scenes" -> IF id = 1 THEN <<1>> ELSE <<>>
      [] t = "images" -> IF id = 1 THEN <<1>> ELSE <<>>
      [] OTHER -> <<>>

\* scene.GetDependentTagIDs, tag.GetIDs(tags).
TagIDs(t, id) ==
    CASE t = "scenes" -> <<id>>
      [] t = "images" -> <<id>>
      [] t = "galleries" -> <<2>>
      [] t = "performers" -> <<1>>
      [] OTHER -> <<>>

\* scene.GetDependentMovieIDs.
MovieIDs(t, id) ==
    CASE t = "scenes" -> <<1>>
      [] OTHER -> <<>>

\* performer.GetIDs(performers).
PerformerIDs(t, id) ==
    CASE t = "scenes" -> IF id = 1 THEN <<1>> ELSE <<>>
      [] t = "images" -> IF id = 2 THEN <<1>> ELSE <<>>
      [] t = "galleries" -> <<1>>
      [] OTHER -> <<>>

\* sceneReader.FindByMovieID: the scenes whose movies hold m.
FindByMovieID(m) == {s \in Rows("scenes") : \E i \in DOMAIN MovieIDs("scenes", s) : MovieIDs("scenes", s)[i] = m}

\* imageReader.FindByGalleryID: the images whose galleries hold g.
FindByGalleryID(g) == {i \in Rows("images") : \E k \in DOMAIN GalleryIDs("images", i) : GalleryIDs("images", i)[k] = g}

\* A node of the output tree: the JSON directory it is under, its path below
\* that directory (<<>> for the directory itself) and whether it is a directory.
Node(dir, rel, isDir) == [dir |-> dir, rel |-> rel, isDir |-> isDir]

\* filepath.Base of a node's path.
Base(n) == n.rel[Len(n.rel)]

\* exportFile / exportFolder: the side-document t.json.saveFile writes, in
\* the files directory.
FileDoc(f) == Node("files", <<f>>, FALSE)

\* s.Files.List(): the files of an item (scenes, images, galleries).  File 3
\* is a file of both images.
Files(t, id) ==
    CASE t = "scenes" -> {FileDoc(id)}
      [] t = "images" -> IF id = 1 THEN {FileDoc(3)} ELSE {FileDoc(3), FileDoc(4)}
      [] t = "galleries" -> {}
      [] OTHER -> {}

\* g.FolderID (0: nil).
FolderID(g) == 1

\* The document a type's save call writes for a row: its directory and name.
DocName(t, id) == Node(t, <<id>>, FALSE)

\* ---------------------------------------------------------------- helpers
SetOf(s) == {s[i] : i \in DOMAIN s}

Min(S) == CHOOSE x \in S : \A y \in S : x <= y

\* A set of ids as a list in ascending order (the order the store returns rows).
RECURSIVE SortedSeq(_)
SortedSeq(S) == IF S = {} THEN <<>> ELSE <<Min(S)>> \o SortedSeq(S \ {Min(S)})

\* sliceutil.AppendUnique: append x unless the slice holds it.
AppendUnique(vs, x) == IF x \in SetOf(vs) THEN vs ELSE Append(vs, x)

\* sliceutil.AppendUniques: AppendUnique of each element in turn.
RECURSIVE AppendUniques(_, _)
AppendUniques(vs, toAdd) ==
    IF toAdd = <<>> THEN vs
    ELSE AppendUniques(AppendUnique(vs, Head(toAdd)), Tail(toAdd))

\* reader.All: every row of the type.
All(t) == SortedSeq(Rows(t))

\* reader.FindMany: exactly the rows of the given ids.
FindMany(t, ids) == AppendUniques(<<>>, SelectSeq(ids, LAMBDA i : i \in Rows(t)))

\* ------------------------------------------------------------------ state
VARIABLES
    full, includeDependencies, workerCount, input, selAll, faultLimit,
    IDs,
    pc, baseDir, tempDir, txnErr, DownloadHash, zipCreated, archive, wgDone,
    ranMovieScenes, ranGalleryImages,
    pool, poolPc, items, fed, jobCh, closed,
    wpc, witem, wk, wsnap, wfile,
    saved, tree, itemState, logged, poolLog, taskLog,
    errs

cfgVars == <<full, includeDependencies, workerCount, input, selAll, faultLimit>>
startVars == <<pc, baseDir, tempDir, txnErr, DownloadHash, zipCreated, archive, wgDone>>
prepassVars == <<ranMovieScenes, ranGalleryImages>>
poolVars == <<pool, poolPc, items, fed, jobCh, closed>>
workerVars == <<wpc, witem, wk, wsnap, wfile>>
outVars == <<saved, tree, itemState, logged, poolLog, taskLog>>
vars == <<cfgVars, IDs, startVars, prepassVars, poolVars, workerVars, outVars, errs>>

Workers == 1..MaxWorkers

\* An error of the environment is possible while the run's budget lasts.
\* errs holds the errors injected so far, each as <<call site, type, id>>.
faults == Cardinality(errs)

Fallible == IF faults < faultLimit THEN {FALSE, TRUE} ELSE {FALSE}

Record(err, site, t, id) == IF err THEN errs \cup {<<site, t, id>>} ELSE errs

\* ----------------------------------------------------------- caller input
NoInput == [ids |-> <<>>, all |-> FALSE]

\* The explicit id list a caller passes for a type.
ExplicitIds(t) ==
    CASE t = "scenes" -> <<2>>
      [] t = "images" -> <<2>>
      [] t = "tags" -> <<1, 1>>
      [] OTHER -> <<1>>

InputOptions(t) == {NoInput, [ids |-> <<>>, all |-> TRUE], [ids |-> ExplicitIds(t), all |-> FALSE]}

Requested(in) == {t \in Types : in[t] # NoInput}

Inputs == {f \in [Types -> UNION {InputOptions(t) : t \in Types}] :
              /\ \A t \in Types : f[t] \in InputOptions(t)
              /\ Cardinality(Requested(f)) <= MaxRequested}

\* The runs explored.  Every run takes its input from Inputs and its worker
\* count from Workers; to keep the state space finite and small, runs with
\* more than one worker take an input for at most one type, and the
\* environment injects errors only in runs with one worker and an input for
\* at most one type, or with several workers and one of FaultyInputs.
FaultyInputs == {[t \in Types |-> IF t = "scenes" THEN [ids |-> <<>>, all |-> TRUE] ELSE NoInput]}

Explored(in, w) == w = 1 \/ Cardinality(Requested(in)) <= 1

FaultLimit(in, w) ==
    IF (w = 1 /\ Cardinality(Requested(in)) <= 1) \/ in \in FaultyInputs THEN MaxFaults ELSE 0

\* newExportSpec: the selector of one caller input.
newExportSpec(in) == [IDs |-> in.ids, all |-> in.all]

\* What the metadata directory holds from an earlier export: the directory
\* of the scenes with the document of a row that is still in the database
\* and the document of a row (7) that no longer is.
StaleTree ==
    {Node("scenes", <<>>, TRUE), Node("scenes", <<1>>, FALSE),
     Node("scenes", <<7>>, FALSE)}

Init ==
    /\ full \in BOOLEAN
    /\ includeDependencies \in BOOLEAN
    /\ workerCount \in Workers
    /\ input \in Inputs
    /\ Explored(input, workerCount)
    /\ faultLimit = FaultLimit(input, workerCount)
    /\ selAll = [t \in Types |-> newExportSpec(input[t]).all]
    /\ IDs = [t \in Types |-> newExportSpec(input[t]).IDs]
    /\ pc = "start"
    /\ baseDir = ""
    /\ wgDone = 0
    /\ tempDir = FALSE
    /\ txnErr = FALSE
    /\ DownloadHash = ""
    /\ zipCreated = FALSE
    /\ archive = EmptyBag
    /\ ranMovieScenes = FALSE
    /\ ranGalleryImages = FALSE
    /\ pool = 0
    /\ poolPc = "idle"
    /\ items = <<>>
    /\ fed = 0
    /\ jobCh = <<>>
    /\ closed = FALSE
    /\ wpc = [w \in Workers |-> "idle"]
    /\ witem = [w \in Workers |-> 0]
    /\ wk = [w \in Workers |-> 0]
    /\ wsnap = [w \in Workers |-> <<>>]
    /\ wfile = [w \in Workers |-> {}]
    /\ saved = [t \in Types |-> [r \in Rows(t) |-> 0]]
    /\ tree = IF full THEN StaleTree ELSE {}
    /\ itemState = [t \in Types |-> [r \in Rows(t) |-> "none"]]
    /\ logged = [t \in Types |-> [r \in Rows(t) |-> 0]]
    /\ poolLog = {}
    /\ taskLog = {}
    /\ errs = {}

\* ------------------------------------------------------------------ Start
\* Where Start goes on without a base directory, were the two returns missing.
AfterBaseDir_GoesOn(err) == "dirs"

\* Where Start clears the directories only after the transaction, were the
\* two calls placed there.
AfterBaseDir_SkipDirs(err) == IF err THEN "done" ELSE "txn"

\* After the base directory is determined: Start returns on an error (TempDir
\* failed, or the metadata path is empty), and prepares the directories
\* otherwise.
AfterBaseDir(err) == IF err THEN "done" ELSE "dirs"

\* A wg.Done() deferred only after the base directory checks: the two early
\* returns do not reach it.
EarlyDone_Missing == FALSE

\* defer wg.Done() is the first statement of Start: the two early returns
\* run it as every other return does.
EarlyDone == TRUE

\* The calls of wg.Done() a return of Start makes.
DeferredDone == 1

\* Start, up to the base directory check: the permanent metadata path (full),
\* or a fresh temporary directory whose removal is deferred.
StartBaseDir ==
    /\ pc = "start"
    /\ \E err \in Fallible :
         /\ errs' = Record(err, IF full THEN "baseDir" ELSE "tempDir", "", 0)
         /\ IF full
            THEN \* GetMetadataPath(); an unset path is "" and Start returns
                 /\ baseDir' = IF err THEN "" ELSE "metadata"
                 /\ pc' = AfterBaseDir(err)
                 /\ taskLog' = IF err THEN taskLog \cup {"baseDir"} ELSE taskLog
                 /\ UNCHANGED tempDir
            ELSE \* TempDir("export"); on error Start returns before the defer
                 /\ baseDir' = IF err THEN "" ELSE "temp"
                 /\ tempDir' = ~err
                 /\ pc' = AfterBaseDir(err)
                 /\ taskLog' = IF err THEN taskLog \cup {"tempDir"} ELSE taskLog
         /\ wgDone' = IF AfterBaseDir(err) = "done" /\ EarlyDone
                      THEN wgDone + DeferredDone ELSE wgDone
    /\ UNCHANGED <<cfgVars, IDs, txnErr, DownloadHash, zipCreated, archive, prepassVars,
                   poolVars, workerVars, saved, tree, itemState, logged, poolLog>>

\* The directories zipFiles walks, in its order.
ZipOrder == <<"tags", "galleries", "performers", "studios", "movies", "scenes", "images">>

ZipDirs == SetOf(ZipOrder)

\* paths.EnsureJSONDirs: the directories of the seven types and of the files.
JSONDirs == {Node(d, <<>>, TRUE) : d \in ZipDirs \cup {"files"}}

\* paths.EmptyJSONDirs: every JSON directory is removed with all it holds.
EmptyJSONDirs(T) == {n \in T : n.dir \notin ZipDirs \cup {"files"}}

\* paths.EnsureJSONDirs: every JSON directory exists afterwards.
EnsureJSONDirs(T) == T \cup JSONDirs

\* paths.EmptyJSONDirs(t.baseDir), paths.EnsureJSONDirs(t.baseDir).
StartDirs ==
    /\ pc = "dirs"
    /\ tree' = EnsureJSONDirs(EmptyJSONDirs(tree))
    /\ pc' = "txn"
    /\ UNCHANGED <<cfgVars, IDs, baseDir, wgDone, tempDir, txnErr, DownloadHash, zipCreated, archive,
                   prepassVars, poolVars, workerVars, saved, itemState, logged, poolLog,
                   taskLog, errs>>

\* WithTxn opens the transaction; when it cannot, the function is never run.
TxnBegin ==
    /\ pc = "txn"
    /\ \E err \in Fallible :
         /\ errs' = Record(err, "txnBegin", "", 0)
         /\ txnErr' = err
         /\ pc' = IF err THEN "afterTxn" ELSE "movieScenes"
    /\ UNCHANGED <<cfgVars, IDs, baseDir, wgDone, tempDir, DownloadHash, zipCreated, archive,
                   prepassVars, poolVars, workerVars, outVars>>

\* Resolve with the selector's all flag ignored.
Resolve_IgnoresAll(t) ==
    IF full THEN All(t)
    ELSE IF Len(IDs[t]) > 0 THEN FindMany(t, IDs[t])
    ELSE <<>>

\* Resolve with the task's full flag ignored.
Resolve_IgnoresFull(t) ==
    IF selAll[t] THEN All(t)
    ELSE IF Len(IDs[t]) > 0 THEN FindMany(t, IDs[t])
    ELSE <<>>

\* The rows a reader resolves for a type: all := t.full || spec.all; All, or
\* FindMany of a non-empty id list, or nothing.
Resolve(t) ==
    IF full \/ selAll[t] THEN All(t)
    ELSE IF Len(IDs[t]) > 0 THEN FindMany(t, IDs[t])
    ELSE <<>>

\* Outcomes of a pre-pass that are not the id of a skipped row.
NoError == 0
FetchError == -1

RECURSIVE UnionInto(_, _, _)
\* for each parent in turn, AppendUnique every child id (children[p] in id order).
UnionInto(ids, parents, children) ==
    IF parents = <<>> THEN ids
    ELSE UnionInto(AppendUniques(ids, SortedSeq(children[Head(parents)])), Tail(parents), children)

\* populateMovieScenes assigning the movies' scenes instead of appending them.
populateMovieScenes_Overwrite(bad) ==
    LET movies == IF bad = FetchError THEN <<>> ELSE Resolve("movies")
        ok == SelectSeq(movies, LAMBDA m : m # bad)
    IN  UnionInto(<<>>, ok, [m \in Rows("movies") |-> FindByMovieID(m)])

\* populateMovieScenes: the scenes of every movie in scope join the scene ids.
\* bad: NoError, FetchError (the movie fetch failed) or the id of the movie
\* whose FindByMovieID failed (the movie is skipped).
populateMovieScenes(bad) ==
    LET movies == IF bad = FetchError THEN <<>> ELSE Resolve("movies")
        ok == SelectSeq(movies, LAMBDA m : m # bad)
    IN  UnionInto(IDs["scenes"], ok, [m \in Rows("movies") |-> FindByMovieID(m)])

\* A gallery pre-pass that finds no image.
populateGalleryImages_CallerOnly(bad) == IDs["images"]

\* populateGalleryImages: the images of every gallery in scope join the image ids.
populateGalleryImages(bad) ==
    LET galleries == IF bad = FetchError THEN <<>> ELSE Resolve("galleries")
        ok == SelectSeq(galleries, LAMBDA g : g # bad)
    IN  UnionInto(IDs["images"], ok, [g \in Rows("galleries") |-> FindByGalleryID(g)])

\* The outcomes of a pre-pass over type t: no error, or one error.
PrepassOutcomes(t) ==
    IF faults < faultLimit THEN {NoError, FetchError} \cup SetOf(Resolve(t)) ELSE {NoError}

\* The movie pre-pass not gated by includeDependencies.
MovieScenesWanted_Ungated == ~full /\ ~selAll["scenes"]

\* Start: if !t.full, if !t.scenes.all && t.includeDependencies.
MovieScenesWanted == ~full /\ ~selAll["scenes"] /\ includeDependencies

\* The gallery pre-pass gated by includeDependencies.
GalleryImagesWanted_Gated == ~full /\ ~selAll["images"] /\ includeDependencies

\* Start: if !t.full, if !t.images.all ("always export gallery images").
GalleryImagesWanted == ~full /\ ~selAll["images"]

StartMovieScenes ==
    /\ pc = "movieScenes"
    /\ IF MovieScenesWanted
       THEN \E bad \in PrepassOutcomes("movies") :
              /\ IDs' = [IDs EXCEPT !["scenes"] = populateMovieScenes(bad)]
              /\ errs' = Record(bad # NoError, "populateMovieScenes", "movies", bad)
              /\ poolLog' = IF bad # NoError THEN poolLog \cup {"populateMovieScenes"} ELSE poolLog
              /\ ranMovieScenes' = TRUE
       ELSE UNCHANGED <<IDs, errs, poolLog, ranMovieScenes>>
    /\ pc' = "galleryImages"
    /\ UNCHANGED <<cfgVars, baseDir, wgDone, tempDir, txnErr, DownloadHash, zipCreated, archive,
                   ranGalleryImages, poolVars, workerVars, saved, tree, itemState, logged,
                   taskLog>>

StartGalleryImages ==
    /\ pc = "galleryImages"
    /\ IF GalleryImagesWanted
       THEN \E bad \in PrepassOutcomes("galleries") :
              /\ IDs' = [IDs EXCEPT !["images"] = populateGalleryImages(bad)]
              /\ errs' = Record(bad # NoError, "populateGalleryImages", "galleries", bad)
              /\ poolLog' = IF bad # NoError THEN poolLog \cup {"populateGalleryImages"} ELSE poolLog
              /\ ranGalleryImages' = TRUE
       ELSE UNCHANGED <<IDs, errs, poolLog, ranGalleryImages>>
    /\ pc' = "pools"
    /\ pool' = 1
    /\ poolPc' = "fetch"
    /\ UNCHANGED <<cfgVars, baseDir, wgDone, tempDir, txnErr, DownloadHash, zipCreated, archive,
                   ranMovieScenes, items, fed, jobCh, closed, workerVars, saved, tree,
                   itemState, logged, taskLog>>

\* ------------------------------------------------------------------ pools
PoolType == PoolOrder[pool]

\* A job channel that holds the whole list.
QueueCap_WholeList == Len(items)

\* jobCh := make(chan *models.X, workers*2).
QueueCap == QueueFactor * workerCount

\* ExportScenes .. ExportMovies, first part: resolve the item list (a failed
\* fetch is logged and leaves no items), make the job channel, start the workers.
\* A pool that gives up when its fetch fails.
AfterFetch_Abort(err) == IF err THEN "abort" ELSE "feed"

\* After the fetch, failed or not, the pool makes its channel and feeds it.
AfterFetch(err) == "feed"

PoolFetch ==
    /\ pc = "pools"
    /\ poolPc = "fetch"
    /\ \E err \in Fallible :
         /\ errs' = Record(err, "fetch", PoolType, 0)
         /\ items' = IF err THEN <<>> ELSE Resolve(PoolType)
         /\ poolLog' = IF err THEN poolLog \cup {PoolType} ELSE poolLog
         /\ poolPc' = AfterFetch(err)
    /\ fed' = 0
    /\ jobCh' = <<>>
    /\ closed' = FALSE
    /\ wpc' = [w \in Workers |-> IF w <= workerCount THEN "recv" ELSE "idle"]
    /\ UNCHANGED <<cfgVars, IDs, startVars, prepassVars, pool, witem, wk, wsnap, wfile,
                   saved, tree, itemState, logged, taskLog>>

\* jobCh <- item: blocks while the channel is full.
PoolFeed ==
    /\ pc = "pools"
    /\ poolPc = "feed"
    /\ fed < Len(items)
    /\ Len(jobCh) < QueueCap
    /\ jobCh' = Append(jobCh, items[fed + 1])
    /\ fed' = fed + 1
    /\ itemState' = [itemState EXCEPT ![PoolType][items[fed + 1]] = "queued"]
    /\ UNCHANGED <<cfgVars, IDs, startVars, prepassVars, pool, poolPc, items, closed,
                   workerVars, saved, tree, logged, poolLog, taskLog, errs>>

\* An Export function that never closes its channel.
Closes_Never == FALSE

\* close(jobCh): the channel is closed.
Closes == TRUE

\* close(jobCh) once every item has been sent.
PoolClose ==
    /\ pc = "pools"
    /\ poolPc = "feed"
    /\ fed = Len(items)
    /\ closed' = Closes
    /\ poolPc' = "wait"
    /\ UNCHANGED <<cfgVars, IDs, startVars, prepassVars, pool, items, fed, jobCh,
                   workerVars, outVars, errs>>

\* A wait that does not wait for the workers.
WorkersExited_NoWait == TRUE

\* scenesWg.Wait(): every worker started for the pool has called wg.Done().
WorkersExited == \A w \in Workers : w <= workerCount => wpc[w] = "exit"

\* A transaction function that runs the pre-pass after the pools.
AfterLastPool_RerunPrepass == "movieScenes"

\* After ExportTags the transaction function returns nil: WithTxn commits.
AfterLastPool == "commit"

\* wg.Wait() returns when every worker has called wg.Done(); the next Export
\* call follows, or the transaction function returns.
PoolWait ==
    /\ pc = "pools"
    /\ poolPc = "wait"
    /\ WorkersExited
    /\ wpc' = [w \in Workers |-> "idle"]
    /\ IF pool < NumPools
       THEN /\ pool' = pool + 1
            /\ poolPc' = "fetch"
            /\ pc' = pc
       ELSE /\ pool' = pool
            /\ poolPc' = "done"
            /\ pc' = AfterLastPool
    /\ UNCHANGED <<cfgVars, IDs, baseDir, wgDone, tempDir, txnErr, DownloadHash, zipCreated,
                   archive, prepassVars, items, fed, jobCh, closed, witem, wk, wsnap,
                   wfile,
                   outVars, errs>>

\* ---------------------------------------------------------------- workers
\* A range loop that ends as soon as the channel is empty.
RangeEnds_OnEmpty == TRUE

\* range over an empty channel ends only once the channel is closed.
RangeEnds == closed

\* A receive that leaves the item in the channel.
Dequeue_Keeps(ch) == ch

\* The channel after a receive: the item received is no longer in it.
Dequeue(ch) == Tail(ch)

\* for s := range jobChan: take the next item, or leave when the channel is
\* closed and drained (defer wg.Done()).
WorkerRecv(w) ==
    /\ pc = "pools"
    /\ wpc[w] = "recv"
    /\ wfile[w] = {}
    /\ IF jobCh # <<>>
       THEN /\ witem' = [witem EXCEPT ![w] = Head(jobCh)]
            /\ jobCh' = Dequeue(jobCh)
            /\ itemState' = [itemState EXCEPT ![PoolType][Head(jobCh)] = "loading"]
            /\ wpc' = [wpc EXCEPT ![w] = "build"]
       ELSE /\ RangeEnds
            /\ wpc' = [wpc EXCEPT ![w] = "exit"]
            /\ UNCHANGED <<witem, jobCh, itemState>>
    /\ UNCHANGED <<cfgVars, IDs, startVars, prepassVars, pool, poolPc, items, fed, closed,
                   wk, wsnap, wfile, saved, tree, logged, poolLog, taskLog, errs>>

\* The errors after which the worker logs and goes to the next item (continue).
SkipOutcomes(t) ==
    CASE t = "scenes" -> {"json", "refs"}
      [] t = "images" -> {"load", "refs"}
      [] t = "galleries" -> {"load", "json", "folder", "refs"}
      [] t = "performers" -> {"json", "refs"}
      [] OTHER -> {"json"}

\* The errors that are logged and after which the item is built all the same:
\* exportScene's LoadRelationships, and g.LoadFiles in the loops over an
\* item's galleries (whose continue is the inner loop's).
LogOnlyOutcomes(t, id) ==
    CASE t = "scenes" -> {"load"} \cup (IF GalleryIDs(t, id) # <<>> THEN {"galleryFiles"} ELSE {})
      [] t = "images" -> IF GalleryIDs(t, id) # <<>> THEN {"galleryFiles"} ELSE {}
      [] OTHER -> {}

\* The side-documents (exportFile, exportFolder) written before outcome o.
SideDocs(t, id, o) ==
    CASE t = "scenes" -> IF o = "json" THEN {} ELSE Files(t, id)
      [] t = "images" -> IF o = "load" THEN {} ELSE Files(t, id)
      [] t = "galleries" ->
            IF o \in {"load", "json"} THEN {}
            ELSE IF o = "folder" \/ FolderID(id) = 0 THEN Files(t, id)
            ELSE Files(t, id) \cup {FileDoc(4 + FolderID(id))}
      [] OTHER -> {}

BuildOutcomes(t, id) ==
    IF faults < faultLimit
    THEN {"ok"} \cup SkipOutcomes(t) \cup LogOnlyOutcomes(t, id)
    ELSE {"ok"}

Dep(target, ids, fallible) == [target |-> target, ids |-> ids, fallible |-> fallible]

StudioDep(t, id) == IF StudioID(t, id) # 0 THEN <<Dep("studios", <<StudioID(t, id)>>, FALSE)>> ELSE <<>>

\* The appends of the "if t.includeDependencies" block of a type's worker, in
\* the code's order; fallible: the ids come from a call that may fail, and the
\* worker then skips the item.
DepAppends(t, id) ==
    CASE t = "scenes" ->
            StudioDep(t, id) \o
            << Dep("galleries", GalleryIDs(t, id), FALSE),
               Dep("tags", TagIDs(t, id), TRUE),
               Dep("movies", MovieIDs(t, id), TRUE),
               Dep("performers", PerformerIDs(t, id), FALSE) >>
      [] t = "images" ->
            StudioDep(t, id) \o
            << Dep("galleries", GalleryIDs(t, id), FALSE),
               Dep("tags", TagIDs(t, id), FALSE),
               Dep("performers", PerformerIDs(t, id), FALSE) >>
      [] t = "galleries" ->
            StudioDep(t, id) \o
            << Dep("tags", TagIDs(t, id), FALSE),
               Dep("performers", PerformerIDs(t, id), FALSE) >>
      [] t = "performers" -> << Dep("tags", TagIDs(t, id), FALSE) >>
      [] t = "movies" -> StudioDep(t, id)
      [] OTHER -> <<>>

\* A worker that returns on an item's failure.
AfterFailure_Exit == "exit"

\* Where a worker goes after an item's failure: the next item.
AfterFailure == "recv"

\* A worker whose dependency block is not under "if t.includeDependencies".
AfterBuild_AlwaysDeps(t, id) == IF DepAppends(t, id) # <<>> THEN "read" ELSE "save"

\* After the document is built: the dependency appends, then the save.
AfterBuild(t, id) == IF includeDependencies /\ DepAppends(t, id) # <<>> THEN "read" ELSE "save"

\* A loop body whose error branches lack their continue.
Skips_Never(t, o) == FALSE

\* The outcome ends the item: the error branch logs and continues.
Skips(t, o) == o \in SkipOutcomes(t)

\* The loop body up to the dependency block: load the relationships, build
\* the JSON document, export the files, resolve the referenced names.
WorkerBuild(w) ==
    /\ pc = "pools"
    /\ wpc[w] = "build"
    /\ LET t == PoolType
           id == witem[w]
       IN \E o \in BuildOutcomes(t, id) :
            /\ errs' = Record(o # "ok", o, t, id)
            /\ wfile' = [wfile EXCEPT ![w] = SideDocs(t, id, o)]
            /\ logged' = IF o # "ok" THEN [logged EXCEPT ![t][id] = @ + 1] ELSE logged
            /\ IF Skips(t, o)
               THEN /\ itemState' = [itemState EXCEPT ![t][id] = "failed"]
                    /\ wpc' = [wpc EXCEPT ![w] = AfterFailure]
                    /\ witem' = [witem EXCEPT ![w] = 0]
                    /\ UNCHANGED wk
               ELSE /\ itemState' = [itemState EXCEPT ![t][id] = "serializing"]
                    /\ wpc' = [wpc EXCEPT ![w] = AfterBuild(t, id)]
                    /\ wk' = [wk EXCEPT ![w] = IF AfterBuild(t, id) = "read" THEN 1 ELSE 0]
                    /\ UNCHANGED witem
    /\ UNCHANGED <<cfgVars, IDs, startVars, prepassVars, poolVars, wsnap, saved, tree,
                   poolLog, taskLog>>

\* t.json.saveFile(fn, newFileJSON) returns in exportFile and exportFolder:
\* the side-documents the worker was writing are in the tree.  Nothing keeps
\* another worker from writing the same fn in the meantime.
WorkerFileDone(w) ==
    /\ pc = "pools"
    /\ wfile[w] # {}
    /\ tree' = tree \cup wfile[w]
    /\ wfile' = [wfile EXCEPT ![w] = {}]
    /\ UNCHANGED <<cfgVars, IDs, startVars, prepassVars, poolVars, wpc, witem, wk, wsnap,
                   saved, itemState, logged, poolLog, taskLog, errs>>

\* t.X.IDs = sliceutil.AppendUniques(t.X.IDs, ids), first half: the worker
\* reads the selector's slice (after the call that yields the ids, which may
\* fail).  No lock is held between this read and the write below.
WorkerRead(w) ==
    /\ pc = "pools"
    /\ wpc[w] = "read"
    /\ wfile[w] = {}
    /\ LET t == PoolType
           id == witem[w]
           a == DepAppends(t, id)[wk[w]]
       IN \E err \in (IF a.fallible THEN Fallible ELSE {FALSE}) :
            /\ errs' = Record(err, "deps", t, id)
            /\ IF err
               THEN /\ logged' = [logged EXCEPT ![t][id] = @ + 1]
                    /\ itemState' = [itemState EXCEPT ![t][id] = "failed"]
                    /\ wpc' = [wpc EXCEPT ![w] = AfterFailure]
                    /\ witem' = [witem EXCEPT ![w] = 0]
                    /\ wk' = [wk EXCEPT ![w] = 0]
                    /\ UNCHANGED wsnap
               ELSE /\ wsnap' = [wsnap EXCEPT ![w] = IDs[a.target]]
                    /\ wpc' = [wpc EXCEPT ![w] = "write"]
                    /\ UNCHANGED <<logged, itemState, witem, wk>>
    /\ UNCHANGED <<cfgVars, IDs, startVars, prepassVars, poolVars, wfile, saved, tree,
                   poolLog, taskLog>>

\* The value a worker stores: the slice it read, with the ids appended.
Appended(snap, ids) == AppendUniques(snap, ids)

\* Second half: the worker stores the appended slice in the selector.
WorkerWrite(w) ==
    /\ pc = "pools"
    /\ wpc[w] = "write"
    /\ wfile[w] = {}
    /\ LET t == PoolType
           id == witem[w]
           a == DepAppends(t, id)[wk[w]]
           last == wk[w] = Len(DepAppends(t, id))
       IN /\ IDs' = [IDs EXCEPT ![a.target] = Appended(wsnap[w], a.ids)]
          /\ wpc' = [wpc EXCEPT ![w] = IF last THEN "save" ELSE "read"]
          /\ wk' = [wk EXCEPT ![w] = IF last THEN 0 ELSE @ + 1]
          /\ wsnap' = [wsnap EXCEPT ![w] = <<>>]
    /\ UNCHANGED <<cfgVars, startVars, prepassVars, poolVars, witem, wfile, outVars, errs>>

\* t.json.saveScene(fn, newSceneJSON) ..: a failed save is logged.
WorkerSave(w) ==
    /\ pc = "pools"
    /\ wpc[w] = "save"
    /\ wfile[w] = {}
    /\ LET t == PoolType
           id == witem[w]
       IN \E err \in Fallible :
            /\ errs' = Record(err, "save", t, id)
            /\ IF err
               THEN /\ logged' = [logged EXCEPT ![t][id] = @ + 1]
                    /\ itemState' = [itemState EXCEPT ![t][id] = "failed"]
                    /\ UNCHANGED <<saved, tree>>
               ELSE /\ saved' = [saved EXCEPT ![t][id] = @ + 1]
                    /\ tree' = tree \cup {DocName(t, id)}
                    /\ itemState' = [itemState EXCEPT ![t][id] = "written"]
                    /\ UNCHANGED logged
    /\ wpc' = [wpc EXCEPT ![w] = "recv"]
    /\ witem' = [witem EXCEPT ![w] = 0]
    /\ UNCHANGED <<cfgVars, IDs, startVars, prepassVars, poolVars, wk, wsnap, wfile,
                   poolLog, taskLog>>

\* ------------------------------------------------- after the pools: Start
\* The transaction function has returned nil; WithTxn commits, and may fail.
TxnCommit ==
    /\ pc = "commit"
    /\ \E err \in Fallible :
         /\ errs' = Record(err, "txnCommit", "", 0)
         /\ txnErr' = err
    /\ pc' = "afterTxn"
    /\ UNCHANGED <<cfgVars, IDs, baseDir, wgDone, tempDir, DownloadHash, zipCreated, archive,
                   prepassVars, poolVars, workerVars, outVars>>

\* Start generating the download whatever the export mode.
AfterTxnTarget_Always(isFull, failed) == "genDownload"

\* Where Start goes after WithTxn has returned, given the export mode and
\* whether the transaction failed: a partial export generates the download.
AfterTxnTarget(isFull, failed) == IF isFull THEN "complete" ELSE "genDownload"

\* if txnErr != nil { logger.Warnf(...) }; if !t.full { generateDownload() }.
AfterTxn ==
    /\ pc = "afterTxn"
    /\ taskLog' = IF txnErr THEN taskLog \cup {"txn"} ELSE taskLog
    /\ pc' = AfterTxnTarget(full, txnErr)
    /\ UNCHANGED <<cfgVars, IDs, baseDir, wgDone, tempDir, txnErr, DownloadHash, zipCreated, archive,
                   prepassVars, poolVars, workerVars, saved, tree, itemState, logged,
                   poolLog, errs>>

\* A failed download after which Start goes on to the completion message.
AfterDownloadError_Complete == "complete"

\* A failed download after which Start ends without its deferred removal.
AfterDownloadError_NoCleanup == "done"

\* if err != nil { logger.Errorf(...); return }: the deferred calls run.
AfterDownloadError == "return"

\* A generateDownload that registers the file before packing it.
AfterCreate_RegistersFirst == "register"

\* After os.CreateTemp: err = t.zipFiles(z).
AfterCreate == "zip"

\* generateDownload: EnsureDir and os.CreateTemp; either may fail, and Start
\* then logs the error and returns.
GenDownloadCreate ==
    /\ pc = "genDownload"
    /\ \E err \in Fallible :
         /\ errs' = Record(err, "createZip", "", 0)
         /\ zipCreated' = ~err
         /\ taskLog' = IF err THEN taskLog \cup {"download"} ELSE taskLog
         /\ pc' = IF err THEN AfterDownloadError ELSE AfterCreate
    /\ UNCHANGED <<cfgVars, IDs, baseDir, wgDone, tempDir, txnErr, DownloadHash, archive,
                   prepassVars, poolVars, workerVars, saved, tree, itemState, logged,
                   poolLog>>

\* zipFile naming the entry after the first component of the file's path
\* below the directory instead of the last.
zipFile_FirstComponent(fn, outDir) == <<outDir, fn.rel[1]>>

\* zipFile: the entry's path is ToSlash(Join(outDir, Base(fn))).
zipFile(fn, outDir) == <<outDir, Base(fn)>>

\* filepath.Walk(root, zipWalkFunc): every node under root is visited; a
\* directory yields nothing, a regular file yields zipFile.
WalkFiles(root) == {n \in tree : n.dir = root /\ ~n.isDir}

\* The archive holding one entry for each of the given files (z.Create does
\* not refuse a path it already holds).
Entries(files) ==
    LET paths == {zipFile(n, n.dir) : n \in files}
    IN  [p \in paths |-> Cardinality({n \in files : zipFile(n, n.dir) = p})]

\* The directories zipFiles walks before it reaches d, and d.
UpTo(d) == {ZipOrder[i] : i \in {j \in DOMAIN ZipOrder : \A k \in 1..(j - 1) : ZipOrder[k] # d}}

\* zipFiles returning at the first walk error.
zipFiles_StopAtError(bad, kept) ==
    Entries(UNION {IF d = bad THEN kept ELSE WalkFiles(d) :
                     d \in (IF bad = "none" THEN ZipDirs ELSE UpTo(bad))})

\* zipFiles: walkWarn over the seven type directories.  bad: the directory
\* whose walk returns an error ("none": no error); kept: the files of that
\* directory entered before the error.  The error is logged by walkWarn and
\* the following directories are walked.
zipFiles(bad, kept) ==
    Entries(UNION {IF d = bad THEN kept ELSE WalkFiles(d) : d \in ZipDirs})

\* The outcomes of zipFiles: no error, or one walk stopped by an error.
ZipOutcomes ==
    {<<"none", {}>>} \cup
    (IF faults < faultLimit
     THEN UNION {{<<d, k>> : k \in SUBSET WalkFiles(d)} : d \in ZipDirs}
     ELSE {})

GenDownloadZip ==
    /\ pc = "zip"
    /\ \E o \in ZipOutcomes :
         /\ errs' = Record(o[1] # "none", "walk", o[1], 0)
         /\ archive' = zipFiles(o[1], o[2])
         /\ taskLog' = IF o[1] # "none" THEN taskLog \cup {"walk"} ELSE taskLog
    /\ pc' = "register"
    /\ UNCHANGED <<cfgVars, IDs, baseDir, wgDone, tempDir, txnErr, DownloadHash, zipCreated,
                   prepassVars, poolVars, workerVars, saved, tree, itemState, logged,
                   poolLog>>

\* DownloadStore.RegisterFile: the handle, or an error (Start logs it and
\* returns without the completion message).
GenDownloadRegister ==
    /\ pc = "register"
    /\ \E err \in Fallible :
         /\ errs' = Record(err, "register", "", 0)
         /\ DownloadHash' = IF err THEN "" ELSE "hash"
         /\ taskLog' = IF err THEN taskLog \cup {"download"} ELSE taskLog
         /\ pc' = IF err THEN AfterDownloadError ELSE "complete"
    /\ UNCHANGED <<cfgVars, IDs, baseDir, wgDone, tempDir, txnErr, zipCreated, archive,
                   prepassVars, poolVars, workerVars, saved, tree, itemState, logged,
                   poolLog>>

\* logger.Infof("Export complete in %s.")
Complete ==
    /\ pc = "complete"
    /\ taskLog' = taskLog \cup {"complete"}
    /\ pc' = "return"
    /\ UNCHANGED <<cfgVars, IDs, baseDir, wgDone, tempDir, txnErr, DownloadHash, zipCreated, archive,
                   prepassVars, poolVars, workerVars, saved, tree, itemState, logged,
                   poolLog, errs>>

\* Start returns: the deferred calls run last registered first, the
\* RemoveDir(t.baseDir) of a partial export, then wg.Done().
Return ==
    /\ pc = "return"
    /\ tempDir' = FALSE
    /\ tree' = IF ~full THEN {} ELSE tree
    /\ wgDone' = wgDone + DeferredDone
    /\ pc' = "done"
    /\ UNCHANGED <<cfgVars, IDs, baseDir, txnErr, DownloadHash, zipCreated, archive,
                   prepassVars, poolVars, workerVars, saved, itemState, logged, poolLog,
                   taskLog, errs>>

\* ------------------------------------------------------------ specification
Next ==
    \/ StartBaseDir
    \/ StartDirs
    \/ TxnBegin
    \/ StartMovieScenes
    \/ StartGalleryImages
    \/ PoolFetch
    \/ PoolFeed
    \/ PoolClose
    \/ PoolWait
    \/ \E w \in Workers : WorkerRecv(w)
    \/ \E w \in Workers : WorkerBuild(w)
    \/ \E w \in Workers : WorkerFileDone(w)
    \/ \E w \in Workers : WorkerRead(w)
    \/ \E w \in Workers : WorkerWrite(w)
    \/ \E w \in Workers : WorkerSave(w)
    \/ TxnCommit
    \/ AfterTxn
    \/ GenDownloadCreate
    \/ GenDownloadZip
    \/ GenDownloadRegister
    \/ Complete
    \/ Return

Spec == Init /\ [][Next]_vars

\* The steps of worker goroutine w.
Worker(w) ==
    \/ WorkerRecv(w)
    \/ WorkerBuild(w)
    \/ WorkerFileDone(w)
    \/ WorkerRead(w)
    \/ WorkerWrite(w)
    \/ WorkerSave(w)

\* The steps of the goroutine that runs an Export function: it resolves the
\* list, feeds and closes the channel and waits for the workers.
Feeder == PoolFetch \/ PoolFeed \/ PoolClose \/ PoolWait

\* The Go scheduler runs every goroutine that stays runnable: the feeder and
\* each worker take their next step if it remains possible.
Fairness == WF_vars(Feeder) /\ \A w \in Workers : WF_vars(Worker(w))

\* The partial exports of nothing, of all tags (a list of three: longer than
\* the channel of one worker, shorter than that of two) and of all scenes (a
\* list of two, with dependencies to append), with one or two workers.
PoolInputs ==
    {in \in Inputs :
        \/ Requested(in) = {}
        \/ \E t \in {"tags", "scenes"} : Requested(in) = {t} /\ in[t].all /\ in[t].ids = <<>>}

PoolInit == Init /\ ~full /\ input \in PoolInputs

FairSpec == PoolInit /\ [][Next]_vars /\ Fairness

\* ------------------------------------------------- packing any output tree
\* zipFiles as a function of the tree it is given: the nodes a tree may hold
\* besides the JSON directories (9: a directory below scenes).
ZipNodes ==
    { Node("scenes", <<1>>, FALSE), Node("scenes", <<9>>, TRUE),
      Node("scenes", <<9, 1>>, FALSE), Node("scenes", <<9, 2>>, FALSE),
      Node("images", <<1>>, FALSE), Node("tags", <<1>>, FALSE),
      Node("files", <<1>>, FALSE) }

\* A node below a directory is in a tree only with that directory.
ZipTrees ==
    {JSONDirs \cup S : S \in {X \in SUBSET ZipNodes :
        \A n \in X : Len(n.rel) = 2 => Node(n.dir, <<n.rel[1]>>, TRUE) \in X}}

\* generateDownload about to call zipFiles on a tree of ZipTrees.
ZipInit ==
    /\ full = FALSE
    /\ includeDependencies = FALSE
    /\ workerCount = 1
    /\ input = [t \in Types |-> NoInput]
    /\ faultLimit \in {0, MaxFaults}
    /\ selAll = [t \in Types |-> FALSE]
    /\ IDs = [t \in Types |-> <<>>]
    /\ pc = "zip"
    /\ baseDir = "temp"
    /\ wgDone = 0
    /\ tempDir = TRUE
    /\ txnErr = FALSE
    /\ DownloadHash = ""
    /\ zipCreated = TRUE
    /\ archive = EmptyBag
    /\ ranMovieScenes = FALSE
    /\ ranGalleryImages = TRUE
    /\ pool = NumPools
    /\ poolPc = "done"
    /\ items = <<>>
    /\ fed = 0
    /\ jobCh = <<>>
    /\ closed = TRUE
    /\ wpc = [w \in Workers |-> "idle"]
    /\ witem = [w \in Workers |-> 0]
    /\ wk = [w \in Workers |-> 0]
    /\ wsnap = [w \in Workers |-> <<>>]
    /\ wfile = [w \in Workers |-> {}]
    /\ saved = [t \in Types |-> [r \in Rows(t) |-> 0]]
    /\ tree \in ZipTrees
    /\ itemState = [t \in Types |-> [r \in Rows(t) |-> "none"]]
    /\ logged = [t \in Types |-> [r \in Rows(t) |-> 0]]
    /\ poolLog = {}
    /\ taskLog = {}
    /\ errs = {}

ZipNext == GenDownloadZip

ZipSpec == ZipInit /\ [][ZipNext]_vars

\* ------------------------------------------------------------------ claims
PoolIndex(t) == CHOOSE i \in 1..NumPools : PoolOrder[i] = t

\* The type's Export call has returned.
PoolCompleted(t) == pool > PoolIndex(t) \/ (pool = PoolIndex(t) /\ poolPc = "done")

\* The scene pool is about to resolve its item list.
ScenePoolStarts == pc = "pools" /\ pool = 1 /\ poolPc = "fetch"

\* The transaction function has been entered and its pre-pass is over.
PrepassOver == pool >= 1

\* The rows of a type the caller's input puts in scope.
InScope(t) == IF input[t].all THEN Rows(t) ELSE SetOf(input[t].ids) \cap Rows(t)

NoDup(s) == \A i, j \in DOMAIN s : i # j => s[i] # s[j]

ItemSites == {"load", "json", "refs", "galleryFiles", "folder", "deps", "save"}

\* The errors that hit one item of a pool.
ItemErrs == {e \in errs : e[1] \in ItemSites}

NoFailureIn(t) == <<"fetch", t, 0>> \notin errs /\ \A r \in Rows(t) : itemState[t][r] # "failed"

\* C1: a type whose selector is 'all' has, once its pool has completed without
\* a failed fetch or item, exactly one document saved for every row of the
\* snapshot; a type whose selector is empty and not 'all' (partial export)
\* queues no item, saves no document and logs no error.
C1_AllRowsOrNone ==
    \A t \in Types :
      /\ (PoolCompleted(t) /\ selAll[t] /\ NoFailureIn(t)) =>
            \A r \in Rows(t) : saved[t][r] = 1
      /\ (~full /\ ~selAll[t] /\ IDs[t] = <<>>) =>
            /\ \A r \in Rows(t) : saved[t][r] = 0 /\ itemState[t][r] = "none" /\ logged[t][r] = 0
            /\ (pool = PoolIndex(t) /\ poolPc # "fetch" /\ <<"fetch", t, 0>> \notin errs) =>
                  (items = <<>> /\ jobCh = <<>> /\ t \notin poolLog)

C1_Witness ==
    /\ pc = "done"
    /\ ~full
    /\ selAll["scenes"]
    /\ \A r \in Rows("scenes") : saved["scenes"][r] = 1
    /\ ~selAll["images"]
    /\ IDs["images"] = <<>>
    /\ \A r \in Rows("images") : saved["images"][r] = 0

\* C2 (as claimed): with includeDependencies, in a run without errors, once a
\* pool has completed every id referenced by an item the pool wrote is in its
\* target selector.
C2_NoAppendLost ==
    \A t \in Types :
      (includeDependencies /\ PoolCompleted(t) /\ errs = {}) =>
         \A r \in Rows(t) :
            itemState[t][r] = "written" =>
               \A k \in DOMAIN DepAppends(t, r) :
                  SetOf(DepAppends(t, r)[k].ids) \subseteq SetOf(IDs[DepAppends(t, r)[k].target])

\* C3 (as claimed): when exactly one queued item fails to load its
\* relationships, no document is saved for it, it is logged once, and every
\* other queued item of the pool has its document.
C3_LoadFailureSkipsItem ==
    \A t \in {"scenes", "images", "galleries"} :
      \A r \in Rows(t) :
         (PoolCompleted(t) /\ errs = {<<"load", t, r>>}) =>
            /\ saved[t][r] = 0
            /\ itemState[t][r] = "failed"
            /\ logged[t][r] = 1
            /\ \A q \in Rows(t) \ {r} : itemState[t][q] # "none" => saved[t][q] = 1

\* C4: after an error on an item, the run goes on: it is never stuck before
\* Start returns, every queued item of a completed pool is written or failed,
\* only the items that met an error are failed, and once the transaction
\* function is left all seven pools have run.
C4_FailureIsolated ==
    ItemErrs # {} =>
      /\ \A t \in Types :
           PoolCompleted(t) =>
              \A r \in Rows(t) :
                 /\ itemState[t][r] \in {"none", "written", "failed"}
                 /\ itemState[t][r] = "failed" => \E e \in ItemErrs : e[2] = t /\ e[3] = r
      /\ pc # "pools" => \A t \in Types : PoolCompleted(t)
      /\ pc # "done" => ENABLED Next

C4_Witness ==
    /\ pc = "done"
    /\ workerCount = 2
    /\ itemState["scenes"][1] = "failed"
    /\ itemState["scenes"][2] = "written"
    /\ \A r \in Rows("tags") : itemState["tags"][r] = "written"

\* C5: in a partial export, when the scene pool starts: without
\* includeDependencies the scene selector holds exactly the caller's ids;
\* with it (scene selector not 'all', no error in the pre-pass) it holds the
\* caller's scene ids and the scenes of every movie in scope, and no other.
C5_MovieSceneClosure ==
    (ScenePoolStarts /\ ~full) =>
      /\ ~includeDependencies => IDs["scenes"] = input["scenes"].ids
      /\ (includeDependencies /\ ~selAll["scenes"] /\ errs = {}) =>
            SetOf(IDs["scenes"]) =
               SetOf(input["scenes"].ids) \cup UNION {FindByMovieID(m) : m \in InScope("movies")}

C5_Witness ==
    /\ ScenePoolStarts
    /\ ~full
    /\ includeDependencies
    /\ input["scenes"].ids = <<2>>
    /\ input["movies"].ids = <<1>>
    /\ IDs["scenes"] = <<2, 1>>

\* C6 (as claimed): the gallery pre-pass runs only with includeDependencies in
\* a partial export; without it the image selector stays the caller's.
C6_GalleryPrepassGated ==
    /\ ranGalleryImages => (includeDependencies /\ ~full)
    /\ (~full /\ ~includeDependencies) => IDs["images"] = input["images"].ids

\* C6 (amended): in a partial export whose image selector is not 'all', once
\* the pre-pass is over (without error) the image selector holds the caller's
\* image ids and the images of every gallery in scope, with or without
\* includeDependencies; in a full export it stays the caller's.
C6_GalleryImageClosure ==
    PrepassOver =>
      /\ (~full /\ ~selAll["images"] /\ "populateGalleryImages" \notin poolLog) =>
            SetOf(IDs["images"]) =
               SetOf(input["images"].ids) \cup UNION {FindByGalleryID(g) : g \in InScope("galleries")}
      /\ (full \/ selAll["images"]) => IDs["images"] = input["images"].ids

C6_Witness ==
    /\ PrepassOver
    /\ ~full
    /\ ~includeDependencies
    /\ input["images"].ids = <<2>>
    /\ input["galleries"].ids = <<1>>
    /\ IDs["images"] = <<2, 1>>

\* C7: once the pre-pass is over, the gallery-to-image expansion has run
\* exactly in the partial exports whose image selector is not 'all', and the
\* movie-to-scene expansion exactly in those that also have includeDependencies
\* (scene selector not 'all'); in a full export neither has run.
C7_PrepassAsymmetry ==
    PrepassOver =>
      /\ ranGalleryImages = (~full /\ ~selAll["images"])
      /\ ranMovieScenes = (~full /\ ~selAll["scenes"] /\ includeDependencies)

C7_Witness ==
    /\ PrepassOver
    /\ ~full
    /\ ~includeDependencies
    /\ ranGalleryImages
    /\ ~ranMovieScenes
    /\ InScope("movies") # {}

\* C8: in a full export every pool's item list is every row of its type,
\* whatever the caller's input, and a pool completed without a failed fetch
\* or item has saved one document for every row.
C8_FullExportsEverything ==
    full =>
      \A t \in Types :
        /\ (pool = PoolIndex(t) /\ poolPc \in {"feed", "wait"} /\ <<"fetch", t, 0>> \notin errs) =>
              items = All(t)
        /\ (PoolCompleted(t) /\ NoFailureIn(t)) => \A r \in Rows(t) : saved[t][r] = 1

C8_Witness ==
    /\ full
    /\ pc = "done"
    /\ input["scenes"].ids = <<2>>
    /\ ~input["tags"].all
    /\ \A t \in Types : \A r \in Rows(t) : saved[t][r] = 1

\* C9 (as claimed): after a transaction error in a partial export no archive
\* is created and DownloadHash stays empty.
C9_TxnErrorNoDownload ==
    (txnErr /\ ~full) => (~zipCreated /\ archive = EmptyBag /\ DownloadHash = "")

\* C10 (as claimed): no selector ever holds an id twice, and no step removes
\* an id from a selector.
C10_AppendOnlyNoDup ==
    [][\A t \in Types : NoDup(IDs[t]) /\ NoDup(IDs'[t]) /\ SetOf(IDs[t]) \subseteq SetOf(IDs'[t])]_vars

\* An item taken in charge by its pool and not yet written or failed.
InProgress == {"queued", "loading", "serializing"}

Terminal == {"written", "failed"}

\* C11: the pools run in the order scenes, images, galleries, movies,
\* performers, studios, tags, one at a time: an item is in progress and a
\* worker is alive only in the current pool, no item of a later pool has been
\* touched, and when a pool starts every item of the pools before it is
\* finished and no worker is left.
C11_PoolsOneAtATime ==
    /\ PoolOrder = <<"scenes", "images", "galleries", "movies", "performers", "studios", "tags">>
    /\ \A t \in Types : \A r \in Rows(t) :
          /\ itemState[t][r] \in InProgress => (pc = "pools" /\ t = PoolType)
          /\ PoolIndex(t) > pool => itemState[t][r] = "none"
          /\ PoolIndex(t) < pool => itemState[t][r] \notin InProgress
    /\ \A w \in Workers :
          /\ wpc[w] # "idle" => (pc = "pools" /\ poolPc \in {"feed", "wait"})
          /\ witem[w] # 0 => (wpc[w] # "idle" /\ witem[w] \in SetOf(items)
                                /\ itemState[PoolType][witem[w]] \in InProgress)
    /\ (pc = "pools" /\ poolPc = "fetch") => \A w \in Workers : wpc[w] = "idle"

C11_Witness ==
    /\ pc = "pools"
    /\ pool = 2
    /\ workerCount = 2
    /\ wpc[1] = "build"
    /\ wpc[2] = "save"
    /\ \A r \in Rows("scenes") : itemState["scenes"][r] = "written"

C13_PoolJoin ==
    /\ \A t \in Types :
          PoolCompleted(t) => \A r \in Rows(t) : itemState[t][r] \in {"none"} \cup Terminal
    /\ ((pc = "pools" /\ poolPc = "fetch" /\ pool > 1) \/ pc = "commit") =>
          LET t == PoolOrder[IF pc = "pools" THEN pool - 1 ELSE NumPools]
          IN  /\ jobCh = <<>>
              /\ fed = Len(items)
              /\ \A w \in Workers : wpc[w] = "idle" /\ witem[w] = 0
              /\ \A i \in DOMAIN items : itemState[t][items[i]] \in Terminal

C13_Witness ==
    /\ pc = "pools"
    /\ poolPc = "fetch"
    /\ pool = 2
    /\ workerCount = 2
    /\ Len(items) = 2
    /\ \A r \in Rows("scenes") : itemState["scenes"][r] = "written"

RegularFiles == {n \in tree : ~n.isDir}

\* C15 (as claimed): once a partial export has packed its tree without error,
\* every document of the tree, side-documents included, is an archive entry.
C15_EveryDocumentArchived ==
    (~full /\ pc = "register" /\ errs = {}) =>
       \A n \in RegularFiles : BagIn(zipFile(n, n.dir), archive)

\* The regular files under the seven type directories.
TypeFiles == {n \in RegularFiles : n.dir \in ZipDirs}

ArchiveStep == pc \in {"genDownload", "zip", "register"} \/ zipCreated \/ DownloadHash # ""

Selected(t) == IF full \/ selAll[t] THEN Rows(t) ELSE SetOf(IDs[t]) \cap Rows(t)

\* C18: after a failed fetch of a type, the failure is logged, the type's
\* pool has no item and writes nothing, the transaction does not fail for
\* it, the run goes on to the end through every later pool, and (with no
\* other error) every later pool writes all it selects.
C18_FetchFailureIsolated ==
    \A t \in Types :
       <<"fetch", t, 0>> \in errs =>
          /\ t \in poolLog
          /\ \A r \in Rows(t) : itemState[t][r] = "none" /\ saved[t][r] = 0
          /\ pool = PoolIndex(t) => items = <<>>
          /\ txnErr => <<"txnCommit", "", 0>> \in errs
          /\ pc # "done" => ENABLED Next
          /\ pc # "pools" => \A u \in Types : PoolCompleted(u)
          /\ errs = {<<"fetch", t, 0>>} =>
                \A u \in Types :
                   (PoolIndex(u) > PoolIndex(t) /\ PoolCompleted(u)) =>
                      \A r \in Selected(u) : saved[u][r] = 1

C18_Witness ==
    /\ pc = "done"
    /\ errs = {<<"fetch", "scenes", 0>>}
    /\ "scenes" \in poolLog
    /\ \A r \in Rows("scenes") : saved["scenes"][r] = 0
    /\ \A u \in Types \ {"scenes"} : \A r \in Rows(u) : saved[u][r] = 1

\* C19: after an error in the walk of one type directory, a warning is
\* logged, every document saved in another type directory is in the archive,
\* the run goes on, and unless the registration itself fails the archive is
\* registered and the export completes.
C19_WalkErrorIsolated ==
    \A d \in ZipDirs :
       <<"walk", d, 0>> \in errs =>
          /\ "walk" \in taskLog
          /\ \A t \in Types \ {d} : \A r \in Rows(t) :
                saved[t][r] = 1 => BagIn(zipFile(DocName(t, r), t), archive)
          /\ pc # "done" => ENABLED Next
          /\ (pc = "done" /\ <<"register", "", 0>> \notin errs) =>
                (DownloadHash = "hash" /\ "complete" \in taskLog /\ "download" \notin taskLog)

C19_Witness ==
    /\ pc = "done"
    /\ errs = {<<"walk", "tags", 0>>}
    /\ DownloadHash = "hash"
    /\ saved["tags"][1] = 1
    /\ ~BagIn(<<"tags", 1>>, archive)
    /\ BagIn(<<"scenes", 1>>, archive)
    /\ BagIn(<<"scenes", 2>>, archive)

\* C20: when the archive file cannot be created or registered, DownloadHash
\* stays empty, the error is logged and the completion message is not, Start
\* goes to its return without trying again, and the temporary directory is
\* removed.
C20_DownloadFailure ==
    (<<"createZip", "", 0>> \in errs \/ <<"register", "", 0>> \in errs) =>
       /\ ~full
       /\ DownloadHash = ""
       /\ "download" \in taskLog
       /\ "complete" \notin taskLog
       /\ pc \in {"return", "done"}
       /\ pc = "done" => (~tempDir /\ tree = {})
       /\ <<"createZip", "", 0>> \in errs => (~zipCreated /\ archive = EmptyBag)

C20_Witness ==
    /\ pc = "done"
    /\ <<"createZip", "", 0>> \in errs
    /\ baseDir = "temp"
    /\ ~tempDir
    /\ \E r \in Rows("scenes") : saved["scenes"][r] = 1

\* ------------------------------------------------------------------- C21
\* The base directory could not be determined: TempDir failed (partial), or
\* the metadata path is empty (full).
NoBaseDir == <<"tempDir", "", 0>> \in errs \/ <<"baseDir", "", 0>> \in errs

\* C21: when the output root cannot be determined (the temporary directory
\* cannot be allocated, or the base directory is empty) the task stops at
\* once: the output tree is as it was found (nothing cleared, nothing
\* created), the transaction was never opened, no pre-pass and no pool ran,
\* no item was touched, and no archive or download was produced.
C21_StopsWithoutRoot ==
    NoBaseDir =>
       /\ pc = "done"
       /\ baseDir = ""
       /\ tree = (IF full THEN StaleTree ELSE {})
       /\ ~tempDir
       /\ ~txnErr /\ errs \subseteq {<<"tempDir", "", 0>>, <<"baseDir", "", 0>>}
       /\ ~ranMovieScenes /\ ~ranGalleryImages
       /\ pool = 0 /\ poolPc = "idle" /\ items = <<>>
       /\ \A t \in Types : \A r \in Rows(t) :
             saved[t][r] = 0 /\ itemState[t][r] = "none"
       /\ ~zipCreated /\ archive = EmptyBag /\ DownloadHash = ""
       /\ "complete" \notin taskLog

\* A full export of everything that found no metadata path and has returned.
C21_Witness ==
    /\ full /\ <<"baseDir", "", 0>> \in errs
    /\ pc = "done" /\ tree = StaleTree /\ "baseDir" \in taskLog

\* ------------------------------------------------------------------- C29
\* The regular files of the output tree that this run did not write: a
\* document of a type whose save has not happened, or a side-document of a
\* file no item of this run has reached.
NotWrittenByRun ==
    {n \in RegularFiles :
       \/ n.dir \in ZipDirs
          /\ ~\E r \in Rows(n.dir) : n = DocName(n.dir, r) /\ saved[n.dir][r] >= 1
       \/ n.dir = "files"
          /\ ~\E t \in Types : \E r \in Rows(t) :
                /\ itemState[t][r] \notin {"none", "queued"}
                /\ n \in SideDocs(t, r, "ok")}

\* C29: on every run that reaches the export the directories of the output
\* root are cleared and recreated before the transaction opens and before
\* any document is written: when the transaction is about to open the tree
\* is exactly the empty directories and nothing has been saved, nothing is
\* saved before that, and from then on the tree holds no document that this
\* run did not write.
C29_DirsClearedFirst ==
    /\ pc \in {"start", "dirs", "txn"} =>
          \A t \in Types : \A r \in Rows(t) :
             saved[t][r] = 0 /\ itemState[t][r] = "none"
    /\ pc = "txn" => tree = JSONDirs
    /\ (pc \notin {"start", "dirs"} /\ ~NoBaseDir) => NotWrittenByRun = {}

\* A full export has completed over a metadata directory that held documents
\* of an earlier export: the document of the vanished row is gone, the
\* document of scene 1 is the one this run saved.
C29_Witness ==
    /\ full /\ pc = "done" /\ "complete" \in taskLog
    /\ Node("scenes", <<7>>, FALSE) \notin tree
    /\ Node("scenes", <<1>>, FALSE) \in tree /\ saved["scenes"][1] = 1

\* ------------------------------------------------------------------- C22
\* C22 (as claimed): no two workers ever write the same output file at the
\* same time: the side-documents two workers have open for writing are
\* disjoint, also when their two items have a file in common.
C22_NoConcurrentFileWrite ==
    \A w1, w2 \in Workers : w1 # w2 => wfile[w1] \cap wfile[w2] = {}

\* ------------------------------------------------------------------- C24
\* The selectors workers append to.
DepTargets == {"studios", "tags", "performers", "movies", "galleries"}

\* Item r of type t failed while its document was built: loading, building
\* the JSON, the gallery's folder, or resolving the referenced names.
BuildFailure(t, r) ==
    \E e \in errs :
       /\ e[2] = t /\ e[3] = r
       /\ e[1] \in {"json", "refs", "folder"} \cup (IF t = "scenes" THEN {} ELSE {"load"})

\* A partial export with dependencies whose only input is the one item r of
\* type t (not a gallery or a movie, whose images or scenes the pre-pass
\* would add): when the pool of t starts, every dependency selector is empty.
SoleItem(t, r) ==
    /\ ~full /\ includeDependencies
    /\ t \notin {"galleries", "movies"}
    /\ Requested(input) = {t} /\ ~input[t].all /\ SetOf(input[t].ids) = {r}
    /\ pool = PoolIndex(t)

C25_MembersOfExported ==
    ~full =>
       /\ "populateGalleryImages" \notin poolLog =>
             \A g \in Rows("galleries") :
                saved["galleries"][g] >= 1 => FindByGalleryID(g) \subseteq Selected("images")
       /\ (includeDependencies /\ "populateMovieScenes" \notin poolLog) =>
             \A m \in Rows("movies") :
                saved["movies"][m] >= 1 => FindByMovieID(m) \subseteq Selected("scenes")

\* C25 (amended): the same for the galleries and movies in scope of the
\* caller's input, which are the ones the pre-pass sees.
C25_MembersOfRequested ==
    ~full =>
       /\ "populateGalleryImages" \notin poolLog =>
             \A g \in InScope("galleries") :
                saved["galleries"][g] >= 1 => FindByGalleryID(g) \subseteq Selected("images")
       /\ (includeDependencies /\ "populateMovieScenes" \notin poolLog) =>
             \A m \in InScope("movies") :
                saved["movies"][m] >= 1 => FindByMovieID(m) \subseteq Selected("scenes")

\* A partial export with dependencies of gallery 1 and movie 1 alone has
\* saved both, with the image of the gallery and the two scenes of the movie.
C25_Witness ==
    /\ ~full /\ includeDependencies /\ pc = "done"
    /\ Requested(input) = {"galleries", "movies"}
    /\ saved["galleries"][1] = 1 /\ saved["images"][1] = 1
    /\ saved["movies"][1] = 1 /\ saved["scenes"][1] = 1 /\ saved["scenes"][2] = 1

\* ------------------------------------------------------------------- C26
\* The steps of an item's state machine.
ItemSteps ==
    { <<"none", "queued">>, <<"queued", "loading">>,
      <<"loading", "serializing">>, <<"loading", "failed">>,
      <<"serializing", "written">>, <<"serializing", "failed">> }

\* The workers that hold item r of type t after the step.
HoldersAfter(t, r) ==
    {w \in Workers : pool' >= 1 /\ PoolOrder[pool'] = t /\ witem'[w] = r}

\* C26: each item follows queued -> loading -> (serializing -> written) |
\* failed and nothing else: every change of an item's state is one of these
\* steps (so written and failed are final, a failed item never becomes
\* written, and no item is taken or attempted twice), an item that is
\* loading or serializing is held by exactly one worker, an item is saved at
\* most once, and it is written exactly when its document has been saved.
C26_ItemStateMachine ==
    [][\A t \in Types : \A r \in Rows(t) :
          /\ itemState'[t][r] # itemState[t][r] =>
                <<itemState[t][r], itemState'[t][r]>> \in ItemSteps
          /\ itemState'[t][r] \in {"loading", "serializing"} =>
                Cardinality(HoldersAfter(t, r)) = 1
          /\ saved'[t][r] <= 1
          /\ (itemState'[t][r] = "written") = (saved'[t][r] = 1)
          /\ itemState'[t][r] = "failed" => itemState[t][r] # "written"]_vars

\* Of the two scenes of one pool, one was written and the other failed.
C26_Witness ==
    /\ itemState["scenes"][1] = "written" /\ saved["scenes"][1] = 1
    /\ itemState["scenes"][2] = "failed" /\ saved["scenes"][2] = 0
    /\ pool = 1 /\ poolPc = "wait"

\* ------------------------------------------------------------------- C27
\* C27: the dependency pre-pass runs at most once per task and inside the
\* transaction, and is over before the scene pool resolves its list: while
\* the movie step is due neither step has run, while the gallery step is
\* due it has not run, in both the transaction is open, no pool has started
\* and no item has been touched; a step that has run ran in an opened
\* transaction; and once a pool has started no pre-pass step is due again.
C27_PrepassOnceBeforePools ==
    /\ pc = "movieScenes" => (~ranMovieScenes /\ ~ranGalleryImages)
    /\ pc = "galleryImages" => ~ranGalleryImages
    /\ pc \in {"movieScenes", "galleryImages"} =>
          /\ pool = 0 /\ poolPc = "idle" /\ items = <<>>
          /\ ~txnErr /\ <<"txnBegin", "", 0>> \notin errs /\ <<"txnCommit", "", 0>> \notin errs
          /\ \A t \in Types : \A r \in Rows(t) : itemState[t][r] = "none"
    /\ (ranMovieScenes \/ ranGalleryImages) => <<"txnBegin", "", 0>> \notin errs
    /\ pool >= 1 => pc \in {"pools", "commit", "afterTxn", "genDownload", "zip",
                            "register", "complete", "return", "done"}
    /\ pool = 0 => (poolPc = "idle" /\ items = <<>>)

\* Both steps of the pre-pass have run and the scene pool is about to
\* resolve its list, in a partial export with dependencies.
C27_Witness ==
    /\ ranMovieScenes /\ ranGalleryImages
    /\ ScenePoolStarts
    /\ input["movies"].ids = <<1>> /\ IDs["scenes"] = <<1, 2>>

\* ------------------------------------------------------------------- C28
\* C28: with includeDependencies = false no worker changes any selector:
\* from the start of the first pool to the end of the last, no step changes
\* any of the seven selectors, and no worker is ever in a dependency append.
C28_NoDepsNoAppend ==
    [][(~includeDependencies /\ pool >= 1) =>
          /\ IDs' = IDs
          /\ \A w \in Workers : wpc'[w] \notin {"read", "write"}]_vars

\* An export of all scenes without dependencies has run to its end: both
\* scenes are written and the selectors of what they refer to are empty.
C28_Witness ==
    /\ ~includeDependencies /\ ~full /\ pc = "done"
    /\ selAll["scenes"] /\ saved["scenes"][1] = 1 /\ saved["scenes"][2] = 1
    /\ IDs["studios"] = <<>> /\ IDs["tags"] = <<>> /\ IDs["movies"] = <<>>
    /\ IDs["galleries"] = <<>> /\ IDs["performers"] = <<>>

\* ------------------------------------------------------------------- C30
\* The workers of the current pool that have been started and have not
\* returned.
LiveWorkers == {w \in Workers : wpc[w] \notin {"idle", "exit"}}

\* C30: the worker count W is fixed for the task and every pool uses it: a
\* pool never has more than W live workers, only workers 1..W are ever
\* started, every pool that has resolved its list has started exactly W
\* workers, and its job channel never holds more than 2 * W items.
C30_WorkersAndQueueBounded ==
    /\ Cardinality(LiveWorkers) <= workerCount
    /\ \A w \in Workers : wpc[w] # "idle" => w <= workerCount
    /\ (pc = "pools" /\ poolPc \in {"feed", "close", "wait"}) =>
          Cardinality({w \in Workers : wpc[w] # "idle"}) = workerCount
    /\ Len(jobCh) <= 2 * workerCount

\* With one worker and three tags, the feeder has filled the channel with
\* two tags and waits with the third while the worker has not returned.
C30_Witness ==
    /\ workerCount = 1 /\ pool = PoolIndex("tags") /\ poolPc = "feed"
    /\ Len(items) = 3 /\ fed = 2 /\ Len(jobCh) = 2
    /\ LiveWorkers = {1}

\* ------------------------------------------------------------------- C31
\* C31: every pool terminates under fair scheduling of the feeder and the
\* workers: a pool that is feeding reaches the state where every item has
\* been sent, the channel is closed and every worker has exited, and every
\* pool that has been entered completes (its Export call returns), whatever
\* the length of its list and whatever items fail.
C31_PoolsTerminate ==
    \A t \in Types :
       /\ (pool = PoolIndex(t) /\ poolPc = "feed") ~>
             (pool = PoolIndex(t) /\ poolPc = "wait" /\ fed = Len(items)
                /\ jobCh = <<>> /\ closed /\ WorkersExited)
       /\ (pool = PoolIndex(t)) ~> PoolCompleted(t)

\* The pool of the tags has completed with one worker, a list of three
\* (longer than the channel's capacity of two) and one tag that failed.
C31_Witness ==
    /\ workerCount = 1 /\ PoolCompleted("tags") /\ Len(items) = 3
    /\ fed = 3 /\ closed
    /\ \E r \in Rows("tags") : itemState["tags"][r] = "failed"
    /\ \E r \in Rows("tags") : itemState["tags"][r] = "written"

\* ------------------------------------------------------------------- C32
\* A step that sets DownloadHash.
Registers == DownloadHash' # DownloadHash

\* C32 (as claimed): the archive is registered only after every file of the
\* output tree has been added to it: at every step that sets DownloadHash,
\* each regular file of the tree is an entry of the archive, the archive
\* file exists and the temporary directory still exists.
C32_RegisteredAfterAllFiles ==
    [][Registers =>
          /\ zipCreated /\ tempDir
          /\ \A n \in RegularFiles : BagIn(zipFile(n, n.dir), archive)]_vars

\* C32 (amended): DownloadHash is set once, by the registration that follows
\* zipFiles: at that step the archive file exists, zipFiles has returned
\* (its seven walks are over and its zip writer is closed) with an entry for
\* every regular file under a type directory whose walk met no error, the
\* temporary directory and the tree still exist, and the hash was empty.
C32_RegisteredAfterPacking ==
    [][Registers =>
          /\ pc = "register" /\ ~full
          /\ zipCreated /\ tempDir /\ baseDir = "temp"
          /\ JSONDirs \subseteq tree
          /\ \A n \in TypeFiles :
                <<"walk", n.dir, 0>> \notin errs => BagIn(zipFile(n, n.dir), archive)
          /\ DownloadHash = "" /\ DownloadHash' = "hash"]_vars

\* The archive of a tree with documents has been registered, and the
\* temporary directory is still there.
C32_Witness ==
    /\ DownloadHash = "hash" /\ pc = "complete" /\ tempDir
    /\ TypeFiles # {} /\ BagCardinality(archive) = Cardinality(TypeFiles)
    /\ errs = {}

\* ------------------------------------------------------------------- C33
\* Start has returned with its signal given and nothing left behind: the
\* temporary directory is removed, no worker is left and the job channel is
\* empty.
SignalledClean ==
    /\ ~tempDir
    /\ ~full => tree = {}
    /\ \A w \in Workers : wpc[w] = "idle" /\ wfile[w] = {}
    /\ jobCh = <<>>

\* C33: Start calls Done on the caller's wait group exactly once on every
\* exit path, and only after all pools' workers have exited and the
\* temporary directory's removal has run: the count of calls is 0 until
\* Start has returned and 1 from then on, a run that has not signalled can
\* always take a step (no exit path ends without the signal), and the step
\* that signals is the last one and leaves nothing behind.
C33_SignalsOnce ==
    /\ [](/\ wgDone \in {0, 1}
          /\ (wgDone = 1) = (pc = "done")
          /\ wgDone = 0 => ENABLED Next
          /\ wgDone = 1 => SignalledClean)
    /\ [][/\ wgDone' >= wgDone
          /\ wgDone' # wgDone => (wgDone = 0 /\ pc' = "done")
          /\ wgDone = 1 => UNCHANGED vars]_vars

\* Start has returned after the registration of the archive failed, with
\* documents written by its workers: one signal, temporary directory removed.
C33_Witness ==
    /\ wgDone = 1 /\ pc = "done"
    /\ <<"register", "", 0>> \in errs /\ "download" \in taskLog
    /\ \E t \in Types : \E r \in Rows(t) : saved[t][r] = 1
    /\ SignalledClean

====
